---- MODULE Spec2Model ----
(***************************************************************************)
(* Library checkout tracker (Task1/src/library_system).                    *)
(*                                                                         *)
(* State: Library.books (isbn -> Book) and Library.members (memberId ->    *)
(* Member), plus `last`, the most recent call: the operation, its          *)
(* arguments, its outcome (the exception raised, by class and message, or  *)
(* "ok") and its return value.  `inputs` is fixed by Init: the ids and     *)
(* dates the callers of a run draw their arguments from.  `pending` holds  *)
(* the calls in flight when callers run concurrently.                      *)
(*                                                                         *)
(* Order processor (Task2/order_processor.py): `lines` is the list of      *)
(* OrderLine given to summarize_by_customer, `summaries` its result and    *)
(* `totals` the line_total, discount and net_total last read from a line.  *)
(* Decimal amounts are counted in thousandths too, so that quantize to     *)
(* 0.01 is a real rounding step.                                           *)
(*                                                                         *)
(* Dates are day numbers, always passed explicitly (the date.today()       *)
(* default is the caller's).  Money is counted in thousandths of a dollar, *)
(* so that round(x, 2) is a real rounding step (to a multiple of 10) and   *)
(* not the identity; 0.50 is 500 and 10.0 is 10000.  Every fine is a       *)
(* multiple of 0.50, which binary floating point holds exactly.            *)
(*                                                                         *)
(* Specifications: Spec, SpecFine and SpecCycle run the Library's calls    *)
(* one at a time over different inputs; SpecConcurrent runs checkoutBook   *)
(* and returnBook in two steps each, by concurrent callers; SpecOrders     *)
(* applies the order processor to lists of order lines.                    *)
(*                                                                         *)
(* Callers pass Book and Member instances (the TypeError branches of       *)
(* addBook and registerMember are not taken) and build members as          *)
(* Member(memberId, name), as the tests and the demo do; a Book is built   *)
(* with or without its isAvailable argument.                               *)
(***************************************************************************)
EXTENDS Integers, Sequences, FiniteSets

VARIABLES books, members, last, inputs, pending, lines, summaries, totals

vars == <<books, members, last, inputs, pending, lines, summaries, totals>>

\* the variables the calls of the Library, made one at a time, leave alone:
\* the calls in flight of concurrent callers (pending) and the order
\* processor of Task2 (lines, summaries, totals)
otherVars == <<pending, lines, summaries, totals>>

(***************************************************************************)
(* Inputs of the calls.  Three families of runs are explored: two members  *)
(* sharing two books over days 0 and 34; one member with four books (one   *)
(* more than MAX_BORROWED) on a single day; one member with two books over *)
(* days 0 and 35.  Day 34 is 20 days past the due date of a day-0 loan:    *)
(* one such loan is fined exactly 10.00 and two are fined 20.00.  On day   *)
(* 35 one day-0 loan alone is fined 10.50.                                 *)
(*                                                                         *)
(* `returns` caps the returns of a run, so the closed BorrowRecords of all *)
(* histories together (the program has no such cap).                       *)
(***************************************************************************)
MaxReturns == 1
CycleReturns == 2
ConcurrentReturns == 0

Inputs ==
    { [memberIds |-> {"M1", "M2"}, isbns |-> {"111", "222"},
       dates |-> {0, 34}, returns |-> MaxReturns],
      [memberIds |-> {"M1"}, isbns |-> {"111", "222", "333", "444"},
       dates |-> {0}, returns |-> MaxReturns],
      [memberIds |-> {"M1"}, isbns |-> {"111", "222"},
       dates |-> {0, 35}, returns |-> MaxReturns] }

\* Families for the fine arithmetic: one loan seen on its due date (day 14
\* for a day-0 loan), the day after and 6 days after; three loans taken on
\* day 0 or day 20 and seen on either day.
FineInputs ==
    { [memberIds |-> {"M1"}, isbns |-> {"111"}, dates |-> {0, 14, 15, 20},
       returns |-> MaxReturns],
      [memberIds |-> {"M1"}, isbns |-> {"111", "222", "333"},
       dates |-> {0, 20}, returns |-> MaxReturns] }

\* The families for the life of a BorrowRecord: two members taking turns
\* with one book, and one member with two books, on days 0 and 20.
CycleInputs ==
    { [memberIds |-> {"M1", "M2"}, isbns |-> {"111"}, dates |-> {0, 20},
       returns |-> CycleReturns],
      [memberIds |-> {"M1"}, isbns |-> {"111", "222"}, dates |-> {0, 20},
       returns |-> CycleReturns] }

\* The families for concurrent callers: two members and four books on one
\* day; two members sharing two books over days 0 and 34, and over days 0
\* and 35; two members taking and returning one book on days 0 and 35.
ConcurrentInputs ==
    { [memberIds |-> {"M1", "M2"}, isbns |-> {"111", "222", "333", "444"},
       dates |-> {0}, returns |-> ConcurrentReturns],
      [memberIds |-> {"M1", "M2"}, isbns |-> {"111", "222"},
       dates |-> {0, 34}, returns |-> ConcurrentReturns],
      [memberIds |-> {"M1", "M2"}, isbns |-> {"111", "222"},
       dates |-> {0, 35}, returns |-> ConcurrentReturns],
      [memberIds |-> {"M1", "M2"}, isbns |-> {"111"},
       dates |-> {0, 35}, returns |-> MaxReturns] }

NoDate == -1
NoId == "-"

(***************************************************************************)
(* Library class constants.                                                *)
(***************************************************************************)
MAX_BORROWED == 3
LOAN_DAYS == 14
FINE_PER_DAY == 500
FINE_BLOCK_THRESHOLD == 10000

EmptyMap == [k \in {} |-> 0]

\* no order line has been read
NoTotals == [line |-> 0, line_total |-> 0, discount |-> 0, net_total |-> 0]

\* round(x, 2) for x >= 0 in thousandths: the nearest hundredth
round2(x) == ((x + 5) \div 10) * 10

\* Library._due_date
due_date(checkout_date) == checkout_date + LOAN_DAYS

\* fine_for_loan counting the due date itself as an overdue day
fine_for_loan_CountsDueDay(checkout_date, as_of) ==
    LET due == due_date(checkout_date) IN
    IF as_of < due
    THEN 0
    ELSE LET overdue_days == as_of - due + 1 IN
         round2(overdue_days * FINE_PER_DAY)

\* Library._fine_for_loan
fine_for_loan(checkout_date, as_of) ==
    LET due == due_date(checkout_date) IN
    IF as_of <= due
    THEN 0
    ELSE LET overdue_days == as_of - due IN
         round2(overdue_days * FINE_PER_DAY)

\* the loop of Library.calculateFine: total += _fine_for_loan(...) over
\* member.borrowedBooks.items()
RECURSIVE sumFines(_, _, _)
sumFines(borrowedBooks, keys, as_of) ==
    IF keys = {}
    THEN 0
    ELSE LET isbn == CHOOSE k \in keys : TRUE IN
         fine_for_loan(borrowedBooks[isbn], as_of)
             + sumFines(borrowedBooks, keys \ {isbn}, as_of)

\* Library.calculateFine on a resolved member
calculateFine(member, as_of) ==
    round2(sumFines(member.borrowedBooks, DOMAIN member.borrowedBooks, as_of))

\* Member(memberId, name): the dataclass defaults
NewMember == [borrowedBooks |-> EmptyMap,
              borrowingHistory |-> <<>>,
              fineBalance |-> 0]

\* BorrowRecord(isbn, checkoutDate, dueDate): returnDate None, fineCharged 0.0
NewBorrowRecord(isbn, checkoutDate) ==
    [isbn |-> isbn,
     checkoutDate |-> checkoutDate,
     dueDate |-> due_date(checkoutDate),
     returnDate |-> NoDate,
     fineCharged |-> 0]

\* the record of a call: the operation, the memberId, isbn and date it was
\* given (NoId, NoDate for those it does not take), how it ended and what it
\* returned (0 when it returns nothing or raises)
Call(op, memberId, isbn, date, outcome, value) ==
    [op |-> op, memberId |-> memberId, isbn |-> isbn, date |-> date,
     outcome |-> outcome, value |-> value]

\* the positions of the closed records (returnDate set) of a history
ClosedRecords(borrowingHistory) ==
    {k \in 1..Len(borrowingHistory) : borrowingHistory[k].returnDate # NoDate}

RECURSIVE sumClosed(_)
sumClosed(ids) ==
    IF ids = {}
    THEN 0
    ELSE LET m == CHOOSE x \in ids : TRUE IN
         Cardinality(ClosedRecords(members[m].borrowingHistory))
             + sumClosed(ids \ {m})

\* the number of closed BorrowRecords in all histories
TotalReturns == sumClosed(DOMAIN members)

\* the cap on the returns of this run
ReturnsCap == inputs.returns

\* Library(): no books, no members; the callers draw from one of families
InitLibrary(families) ==
    /\ books = EmptyMap
    /\ members = EmptyMap
    /\ last = Call("init", NoId, NoId, NoDate, "ok", 0)
    /\ inputs \in families
    /\ pending = EmptyMap
    /\ lines = <<>>
    /\ summaries = EmptyMap
    /\ totals = NoTotals

Init == InitLibrary(Inputs)

(***************************************************************************)
(* Library.addBook.  Book.__init__ takes isAvailable (default True) and    *)
(* addBook stores the book as constructed.                                 *)
(***************************************************************************)
AddBook(isbn, isAvailable) ==
    IF isbn \in DOMAIN books
    THEN /\ last' = Call("addBook", NoId, isbn, NoDate, "DuplicateBook", 0)
         /\ UNCHANGED <<books, members, inputs>>
    ELSE /\ books' = [i \in DOMAIN books \cup {isbn} |->
                         IF i = isbn THEN [isAvailable |-> isAvailable]
                                     ELSE books[i]]
         /\ last' = Call("addBook", NoId, isbn, NoDate, "ok", 0)
         /\ UNCHANGED <<members, inputs>>

(***************************************************************************)
(* Library.registerMember                                                  *)
(***************************************************************************)
RegisterMember(memberId) ==
    IF memberId \in DOMAIN members
    THEN /\ last' = Call("registerMember", memberId, NoId, NoDate,
                          "DuplicateMember", 0)
         /\ UNCHANGED <<books, members, inputs>>
    ELSE /\ members' = [m \in DOMAIN members \cup {memberId} |->
                           IF m = memberId THEN NewMember ELSE members[m]]
         /\ last' = Call("registerMember", memberId, NoId, NoDate,
                          "ok", 0)
         /\ UNCHANGED <<books, inputs>>

(***************************************************************************)
(* Library.checkoutBook                                                    *)
(***************************************************************************)
\* CheckoutRule with the borrow limit off by one (> for >=)
CheckoutRule_LimitOffByOne(member, book, isbn) ==
    IF member.fineBalance > FINE_BLOCK_THRESHOLD THEN "FineBlock"
    ELSE IF ~book.isAvailable THEN "Unavailable"
    ELSE IF Cardinality(DOMAIN member.borrowedBooks) > MAX_BORROWED
         THEN "BorrowLimit"
    ELSE IF isbn \in DOMAIN member.borrowedBooks THEN "DuplicateLoan"
    ELSE "ok"

\* CheckoutRule with the borrow limit checked before the availability
CheckoutRule_LimitBeforeAvailability(member, book, isbn) ==
    IF member.fineBalance > FINE_BLOCK_THRESHOLD THEN "FineBlock"
    ELSE IF Cardinality(DOMAIN member.borrowedBooks) >= MAX_BORROWED
         THEN "BorrowLimit"
    ELSE IF ~book.isAvailable THEN "Unavailable"
    ELSE IF isbn \in DOMAIN member.borrowedBooks THEN "DuplicateLoan"
    ELSE "ok"

\* CheckoutRule with the fine gate off by one (>= for >)
CheckoutRule_GateOffByOne(member, book, isbn) ==
    IF member.fineBalance >= FINE_BLOCK_THRESHOLD THEN "FineBlock"
    ELSE IF ~book.isAvailable THEN "Unavailable"
    ELSE IF Cardinality(DOMAIN member.borrowedBooks) >= MAX_BORROWED
         THEN "BorrowLimit"
    ELSE IF isbn \in DOMAIN member.borrowedBooks THEN "DuplicateLoan"
    ELSE "ok"

\* the rule checks of lines 69-79, on the member whose fineBalance line 68
\* has just refreshed
CheckoutRule(member, book, isbn) ==
    IF member.fineBalance > FINE_BLOCK_THRESHOLD THEN "FineBlock"
    ELSE IF ~book.isAvailable THEN "Unavailable"
    ELSE IF Cardinality(DOMAIN member.borrowedBooks) >= MAX_BORROWED
         THEN "BorrowLimit"
    ELSE IF isbn \in DOMAIN member.borrowedBooks THEN "DuplicateLoan"
    ELSE "ok"

\* RefreshFine leaving the stored balance as it is
RefreshFine_KeepsStored(member, as_of) == member

\* line 68: member.fineBalance = self.calculateFine(memberId, as_of=checkoutDate)
RefreshFine(member, as_of) ==
    [member EXCEPT !.fineBalance = calculateFine(member, as_of)]

\* MemberAfterCheckout with lines 81-90 moved above the borrow-limit check
MemberAfterCheckout_LendsBeforeLimit(member, isbn, checkoutDate, outcome) ==
    IF outcome \in {"ok", "BorrowLimit", "DuplicateLoan"}
    THEN LET lent == [member EXCEPT
                 !.borrowedBooks =
                     [i \in DOMAIN member.borrowedBooks \cup {isbn} |->
                         IF i = isbn THEN checkoutDate
                                     ELSE member.borrowedBooks[i]],
                 !.borrowingHistory =
                     Append(member.borrowingHistory,
                            NewBorrowRecord(isbn, checkoutDate))]
         IN IF outcome = "ok" THEN RefreshFine(lent, checkoutDate) ELSE lent
    ELSE member

\* MemberAfterCheckout without lines 84-90: no BorrowRecord is appended
MemberAfterCheckout_NoRecord(member, isbn, checkoutDate, outcome) ==
    IF outcome = "ok"
    THEN LET lent == [member EXCEPT
                 !.borrowedBooks =
                     [i \in DOMAIN member.borrowedBooks \cup {isbn} |->
                         IF i = isbn THEN checkoutDate
                                     ELSE member.borrowedBooks[i]]]
         IN RefreshFine(lent, checkoutDate)
    ELSE member

\* the member when checkoutBook returns or raises after line 68
MemberAfterCheckout(member, isbn, checkoutDate, outcome) ==
    IF outcome = "ok"
    THEN LET lent == [member EXCEPT
                 !.borrowedBooks =
                     [i \in DOMAIN member.borrowedBooks \cup {isbn} |->
                         IF i = isbn THEN checkoutDate
                                     ELSE member.borrowedBooks[i]],
                 !.borrowingHistory =
                     Append(member.borrowingHistory,
                            NewBorrowRecord(isbn, checkoutDate))]
         IN RefreshFine(lent, checkoutDate)
    ELSE member

\* BookAfterCheckout without line 82: the book stays available
BookAfterCheckout_StaysAvailable(book, outcome) == book

\* the book when checkoutBook returns or raises after line 68
BookAfterCheckout(book, outcome) ==
    IF outcome = "ok" THEN [book EXCEPT !.isAvailable = FALSE] ELSE book

\* CheckoutBook with the book looked up after line 68 instead of before it
CheckoutBook_RefreshBeforeLookup(memberId, isbn, checkoutDate) ==
    IF memberId \notin DOMAIN members
    THEN /\ last' = Call("checkoutBook", memberId, isbn, checkoutDate,
                          "MemberNotFound", 0)
         /\ UNCHANGED <<books, members, inputs>>
    ELSE IF isbn \notin DOMAIN books
    THEN /\ members' = [members EXCEPT ![memberId] =
                RefreshFine(members[memberId], checkoutDate)]
         /\ last' = Call("checkoutBook", memberId, isbn, checkoutDate,
                          "BookNotFound", 0)
         /\ UNCHANGED <<books, inputs>>
    ELSE LET member == RefreshFine(members[memberId], checkoutDate)
             outcome == CheckoutRule(member, books[isbn], isbn)
         IN /\ members' = [members EXCEPT ![memberId] =
                   MemberAfterCheckout(member, isbn, checkoutDate, outcome)]
            /\ books' = [books EXCEPT ![isbn] =
                   BookAfterCheckout(books[isbn], outcome)]
            /\ last' = Call("checkoutBook", memberId, isbn, checkoutDate,
                          outcome, 0)
            /\ UNCHANGED inputs

CheckoutBook(memberId, isbn, checkoutDate) ==
    IF memberId \notin DOMAIN members
    THEN /\ last' = Call("checkoutBook", memberId, isbn, checkoutDate,
                          "MemberNotFound", 0)
         /\ UNCHANGED <<books, members, inputs>>
    ELSE IF isbn \notin DOMAIN books
    THEN /\ last' = Call("checkoutBook", memberId, isbn, checkoutDate,
                          "BookNotFound", 0)
         /\ UNCHANGED <<books, members, inputs>>
    ELSE LET member == RefreshFine(members[memberId], checkoutDate)
             outcome == CheckoutRule(member, books[isbn], isbn)
         IN /\ members' = [members EXCEPT ![memberId] =
                   MemberAfterCheckout(member, isbn, checkoutDate, outcome)]
            /\ books' = [books EXCEPT ![isbn] =
                   BookAfterCheckout(books[isbn], outcome)]
            /\ last' = Call("checkoutBook", memberId, isbn, checkoutDate,
                          outcome, 0)
            /\ UNCHANGED inputs

(***************************************************************************)
(* Library.returnBook                                                      *)
(***************************************************************************)
\* ReturnRule without the date check of lines 104-105
ReturnRule_NoDateCheck(member, isbn, returnDate) ==
    IF isbn \notin DOMAIN member.borrowedBooks THEN "NotBorrowed"
    ELSE "ok"

\* ReturnRule with the fine gate of checkoutBook (lines 68-70) put in front
\* of the date check
ReturnRule_FineGate(member, isbn, returnDate) ==
    IF isbn \notin DOMAIN member.borrowedBooks THEN "NotBorrowed"
    ELSE IF calculateFine(member, returnDate) > FINE_BLOCK_THRESHOLD
         THEN "FineBlock"
    ELSE IF returnDate < member.borrowedBooks[isbn] THEN "InvalidDate"
    ELSE "ok"

\* the checks of lines 100-105
ReturnRule(member, isbn, returnDate) ==
    IF isbn \notin DOMAIN member.borrowedBooks THEN "NotBorrowed"
    ELSE IF returnDate < member.borrowedBooks[isbn] THEN "InvalidDate"
    ELSE "ok"

\* CloseRecord without the test for returnDate None: every record of the
\* isbn is (re)written
CloseRecord_AllForIsbn(borrowingHistory, isbn, returnDate, fine) ==
    [k \in 1..Len(borrowingHistory) |->
        IF borrowingHistory[k].isbn = isbn
        THEN [borrowingHistory[k] EXCEPT !.returnDate = returnDate,
                                         !.fineCharged = fine]
        ELSE borrowingHistory[k]]

\* CloseRecord searching the history from the start for the isbn
CloseRecord_Oldest(borrowingHistory, isbn, returnDate, fine) ==
    LET same == {k \in 1..Len(borrowingHistory) :
                    borrowingHistory[k].isbn = isbn}
    IN IF same = {}
       THEN borrowingHistory
       ELSE LET k == CHOOSE x \in same : \A y \in same : x <= y
            IN [borrowingHistory EXCEPT ![k] =
                   [@ EXCEPT !.returnDate = returnDate,
                             !.fineCharged = fine]]

\* lines 109-113: the last record of the history with this isbn and no
\* returnDate is closed; no record changes when there is none
CloseRecord(borrowingHistory, isbn, returnDate, fine) ==
    LET open == {k \in 1..Len(borrowingHistory) :
                    /\ borrowingHistory[k].isbn = isbn
                    /\ borrowingHistory[k].returnDate = NoDate}
    IN IF open = {}
       THEN borrowingHistory
       ELSE LET k == CHOOSE x \in open : \A y \in open : y <= x
            IN [borrowingHistory EXCEPT ![k] =
                   [@ EXCEPT !.returnDate = returnDate,
                             !.fineCharged = fine]]

\* MemberAfterReturn charging the returned loan's fine to fineBalance (what
\* the comment on Member.fineBalance describes) in place of line 118
MemberAfterReturn_AddsCharge(member, isbn, returnDate, outcome) ==
    IF outcome = "ok"
    THEN LET fine_for_this_book ==
                 fine_for_loan(member.borrowedBooks[isbn], returnDate)
         IN [member EXCEPT
                 !.borrowingHistory =
                     CloseRecord(member.borrowingHistory, isbn, returnDate,
                                 fine_for_this_book),
                 !.borrowedBooks =
                     [i \in DOMAIN member.borrowedBooks \ {isbn} |->
                         member.borrowedBooks[i]],
                 !.fineBalance = member.fineBalance + fine_for_this_book]
    ELSE member

\* MemberAfterReturn without line 118: fineBalance keeps the value it had
MemberAfterReturn_KeepsBalance(member, isbn, returnDate, outcome) ==
    IF outcome = "ok"
    THEN LET fine_for_this_book ==
                 fine_for_loan(member.borrowedBooks[isbn], returnDate)
         IN [member EXCEPT
                 !.borrowingHistory =
                     CloseRecord(member.borrowingHistory, isbn, returnDate,
                                 fine_for_this_book),
                 !.borrowedBooks =
                     [i \in DOMAIN member.borrowedBooks \ {isbn} |->
                         member.borrowedBooks[i]]]
    ELSE member

\* the member when returnBook returns or raises
MemberAfterReturn(member, isbn, returnDate, outcome) ==
    IF outcome = "ok"
    THEN LET fine_for_this_book ==
                 fine_for_loan(member.borrowedBooks[isbn], returnDate)
             back == [member EXCEPT
                 !.borrowingHistory =
                     CloseRecord(member.borrowingHistory, isbn, returnDate,
                                 fine_for_this_book),
                 !.borrowedBooks =
                     [i \in DOMAIN member.borrowedBooks \ {isbn} |->
                         member.borrowedBooks[i]]]
         IN RefreshFine(back, returnDate)
    ELSE member

\* BookAfterReturn without line 116
BookAfterReturn_StaysOut(book, outcome) == book

\* the book when returnBook returns or raises
BookAfterReturn(book, outcome) ==
    IF outcome = "ok" THEN [book EXCEPT !.isAvailable = TRUE] ELSE book

\* ReturnValue returning the member's total fine instead of this loan's
ReturnValue_Aggregate(member, isbn, returnDate, outcome) ==
    IF outcome = "ok" THEN calculateFine(member, returnDate) ELSE 0

\* the value returnBook returns (0 stands for no value when it raises)
ReturnValue(member, isbn, returnDate, outcome) ==
    IF outcome = "ok"
    THEN fine_for_loan(member.borrowedBooks[isbn], returnDate)
    ELSE 0

ReturnBook(memberId, isbn, returnDate) ==
    IF memberId \notin DOMAIN members
    THEN /\ last' = Call("returnBook", memberId, isbn, returnDate,
                          "MemberNotFound", 0)
         /\ UNCHANGED <<books, members, inputs>>
    ELSE IF isbn \notin DOMAIN books
    THEN /\ last' = Call("returnBook", memberId, isbn, returnDate,
                          "BookNotFound", 0)
         /\ UNCHANGED <<books, members, inputs>>
    ELSE LET member == members[memberId]
             outcome == ReturnRule(member, isbn, returnDate)
         IN /\ outcome = "ok" => TotalReturns < ReturnsCap
            /\ members' = [members EXCEPT ![memberId] =
                   MemberAfterReturn(member, isbn, returnDate, outcome)]
            /\ books' = [books EXCEPT ![isbn] =
                   BookAfterReturn(books[isbn], outcome)]
            /\ last' = Call("returnBook", memberId, isbn, returnDate,
                          outcome,
                            ReturnValue(member, isbn, returnDate, outcome))
            /\ UNCHANGED inputs

(***************************************************************************)
(* Library.calculateFine as a call of its own                              *)
(***************************************************************************)
\* MemberAfterCalculateFine storing the result in fineBalance, as line 68 does
MemberAfterCalculateFine_Stores(member, as_of) == RefreshFine(member, as_of)

\* what the call leaves in the member it resolved
MemberAfterCalculateFine(member, as_of) == member

CalculateFine(memberId, as_of) ==
    IF memberId \notin DOMAIN members
    THEN /\ last' = Call("calculateFine", memberId, NoId, as_of,
                          "MemberNotFound", 0)
         /\ UNCHANGED <<books, members, inputs>>
    ELSE /\ last' = Call("calculateFine", memberId, NoId, as_of,
                          "ok",
                         calculateFine(members[memberId], as_of))
         /\ members' = [members EXCEPT ![memberId] =
                MemberAfterCalculateFine(members[memberId], as_of)]
         /\ UNCHANGED <<books, inputs>>

Next ==
    \/ \E isbn \in inputs.isbns, isAvailable \in BOOLEAN :
           AddBook(isbn, isAvailable) /\ UNCHANGED otherVars
    \/ \E memberId \in inputs.memberIds :
           RegisterMember(memberId) /\ UNCHANGED otherVars
    \/ \E memberId \in inputs.memberIds, isbn \in inputs.isbns,
          checkoutDate \in inputs.dates :
           CheckoutBook(memberId, isbn, checkoutDate) /\ UNCHANGED otherVars
    \/ \E memberId \in inputs.memberIds, isbn \in inputs.isbns,
          returnDate \in inputs.dates :
           ReturnBook(memberId, isbn, returnDate) /\ UNCHANGED otherVars
    \/ \E memberId \in inputs.memberIds, as_of \in inputs.dates :
           CalculateFine(memberId, as_of) /\ UNCHANGED otherVars

Spec == Init /\ [][Next]_vars

\* the same calls, over the inputs of the life of a BorrowRecord
InitCycle == InitLibrary(CycleInputs)

SpecCycle == InitCycle /\ [][Next]_vars

\* the same calls, over the inputs of the fine arithmetic
InitFine == InitLibrary(FineInputs)

SpecFine == InitFine /\ [][Next]_vars

(***************************************************************************)
(* checkoutBook and returnBook run by concurrent callers, each call in two *)
(* steps: the lookups and checks (with line 68, which they read), then the *)
(* mutations.  The calls of one member are serialized: a member has at     *)
(* most one call in flight, held in pending between its two steps; the     *)
(* calls of different members interleave freely.  `last` is the call that  *)
(* completed last.                                                         *)
(***************************************************************************)
\* the calls in flight once memberId's call has passed its checks
Begin(memberId, call) ==
    [m \in DOMAIN pending \cup {memberId} |->
        IF m = memberId THEN call ELSE pending[m]]

\* the calls in flight once memberId's call has completed
End(memberId) == [m \in DOMAIN pending \ {memberId} |-> pending[m]]

\* the returns that have passed their checks and not yet completed
PendingReturns == {m \in DOMAIN pending : pending[m].op = "returnBook"}

\* lines 64-79
CheckoutCheck(memberId, isbn, checkoutDate) ==
    /\ memberId \notin DOMAIN pending
    /\ IF memberId \notin DOMAIN members
       THEN /\ last' = Call("checkoutBook", memberId, isbn, checkoutDate,
                             "MemberNotFound", 0)
            /\ UNCHANGED <<books, members, pending>>
       ELSE IF isbn \notin DOMAIN books
       THEN /\ last' = Call("checkoutBook", memberId, isbn, checkoutDate,
                             "BookNotFound", 0)
            /\ UNCHANGED <<books, members, pending>>
       ELSE LET member == RefreshFine(members[memberId], checkoutDate)
                outcome == CheckoutRule(member, books[isbn], isbn)
            IN /\ members' = [members EXCEPT ![memberId] = member]
               /\ IF outcome = "ok"
                  THEN /\ pending' =
                              Begin(memberId,
                                    Call("checkoutBook", memberId, isbn,
                                         checkoutDate, "ok", 0))
                       /\ UNCHANGED last
                  ELSE /\ last' = Call("checkoutBook", memberId, isbn,
                                        checkoutDate, outcome, 0)
                       /\ UNCHANGED pending
               /\ UNCHANGED books
    /\ UNCHANGED <<inputs, lines, summaries, totals>>

\* lines 81-92
CheckoutCommit(memberId) ==
    /\ memberId \in DOMAIN pending
    /\ pending[memberId].op = "checkoutBook"
    /\ LET call == pending[memberId] IN
       /\ members' = [members EXCEPT ![memberId] =
              MemberAfterCheckout(members[memberId], call.isbn, call.date,
                                  "ok")]
       /\ books' = [books EXCEPT ![call.isbn] =
              BookAfterCheckout(books[call.isbn], "ok")]
       /\ last' = call
    /\ pending' = End(memberId)
    /\ UNCHANGED <<inputs, lines, summaries, totals>>

\* lines 96-107
ReturnCheck(memberId, isbn, returnDate) ==
    /\ memberId \notin DOMAIN pending
    /\ IF memberId \notin DOMAIN members
       THEN /\ last' = Call("returnBook", memberId, isbn, returnDate,
                             "MemberNotFound", 0)
            /\ UNCHANGED pending
       ELSE IF isbn \notin DOMAIN books
       THEN /\ last' = Call("returnBook", memberId, isbn, returnDate,
                             "BookNotFound", 0)
            /\ UNCHANGED pending
       ELSE LET member == members[memberId]
                outcome == ReturnRule(member, isbn, returnDate)
            IN IF outcome = "ok"
               THEN /\ TotalReturns + Cardinality(PendingReturns)
                           < ReturnsCap
                    /\ pending' =
                           Begin(memberId,
                                 Call("returnBook", memberId, isbn,
                                      returnDate, "ok",
                                      ReturnValue(member, isbn, returnDate,
                                                  "ok")))
                    /\ UNCHANGED last
               ELSE /\ last' = Call("returnBook", memberId, isbn,
                                     returnDate, outcome, 0)
                    /\ UNCHANGED pending
    /\ UNCHANGED <<books, members, inputs, lines, summaries, totals>>

\* lines 109-120
ReturnCommit(memberId) ==
    /\ memberId \in DOMAIN pending
    /\ pending[memberId].op = "returnBook"
    /\ LET call == pending[memberId] IN
       /\ members' = [members EXCEPT ![memberId] =
              MemberAfterReturn(members[memberId], call.isbn, call.date,
                                "ok")]
       /\ books' = [books EXCEPT ![call.isbn] =
              BookAfterReturn(books[call.isbn], "ok")]
       /\ last' = call
    /\ pending' = End(memberId)
    /\ UNCHANGED <<inputs, lines, summaries, totals>>

NextConcurrent ==
    \/ \E memberId \in inputs.memberIds :
           RegisterMember(memberId) /\ UNCHANGED otherVars
    \/ \E memberId \in inputs.memberIds, isbn \in inputs.isbns,
          checkoutDate \in inputs.dates :
           CheckoutCheck(memberId, isbn, checkoutDate)
    \/ \E memberId \in inputs.memberIds : CheckoutCommit(memberId)
    \/ \E memberId \in inputs.memberIds, isbn \in inputs.isbns,
          returnDate \in inputs.dates :
           ReturnCheck(memberId, isbn, returnDate)
    \/ \E memberId \in inputs.memberIds : ReturnCommit(memberId)

\* the catalog is filled, as by the fixture of tests/test_library.py, before
\* the concurrent callers start; members register as they come
InitConcurrent ==
    /\ inputs \in ConcurrentInputs
    /\ books = [isbn \in inputs.isbns |-> [isAvailable |-> TRUE]]
    /\ members = EmptyMap
    /\ last = Call("init", NoId, NoId, NoDate, "ok", 0)
    /\ pending = EmptyMap
    /\ lines = <<>>
    /\ summaries = EmptyMap
    /\ totals = NoTotals

SpecConcurrent == InitConcurrent /\ [][NextConcurrent]_vars

(***************************************************************************)
(* Task2/order_processor.py                                                *)
(***************************************************************************)
\* the longest list of order lines given to summarize_by_customer
MaxLines == 3

DISCOUNT_THRESHOLD == 500000

\* DISCOUNT_RATE = Decimal("0.10"), as the divisor of the product lt * 0.10
DISCOUNT_DIVISOR == 10

\* OrderLine(order_id, customer, product, quantity, unit_price, order_date);
\* product and order_date take no part in any total
OrderLine(order_id, customer, quantity, unit_price) ==
    [order_id |-> order_id, customer |-> customer,
     quantity |-> quantity, unit_price |-> unit_price]

\* The order lines of a run: two order ids, two customers and a quantity and
\* unit price among 2 x 250.00 (a line total of exactly 500.00),
\* 1 x 500.05 (10% is 50.005) and 3 x 5.004 (the product, 15.012, is not a
\* whole number of cents).
OrderLines ==
    { OrderLine(order_id, customer, qp[1], qp[2]) :
          order_id \in {"A1", "A2"}, customer \in {"Alice", "Bob"},
          qp \in {<<2, 250000>>, <<1, 500050>>, <<3, 5004>>} }

\* the lists of at most n elements of S
ListsUpTo(S, n) == UNION {[1..k -> S] : k \in 0..n}

\* d.quantize(MONEY_Q, rounding=ROUND_HALF_UP): the nearest hundredth, a
\* half going away from zero
quantize(d) ==
    IF d >= 0 THEN ((d + 5) \div 10) * 10
              ELSE 0 - (((0 - d) + 5) \div 10) * 10

\* OrderLine.line_total
line_total(ol) == quantize(ol.quantity * ol.unit_price)

\* discount applying from the threshold on (>= for >)
discount_FromThreshold(ol) ==
    LET lt == line_total(ol) IN
    IF lt >= DISCOUNT_THRESHOLD
    THEN quantize(lt \div DISCOUNT_DIVISOR)
    ELSE 0

\* OrderLine.discount; lt is a whole number of cents, so lt * 0.10 is a
\* whole number of thousandths
discount(ol) ==
    LET lt == line_total(ol) IN
    IF lt > DISCOUNT_THRESHOLD
    THEN quantize(lt \div DISCOUNT_DIVISOR)
    ELSE 0

\* OrderLine.net_total
net_total(ol) == quantize(line_total(ol) - discount(ol))

\* CustomerSummary(customer, set(), 0, Decimal("0.00"), Decimal("0.00"))
NewCustomerSummary(customer) ==
    [customer |-> customer, order_ids |-> {}, total_items |-> 0,
     gross_total |-> 0, discount_total |-> 0]

\* CustomerSummary.num_orders
num_orders(s) == Cardinality(s.order_ids)

\* CustomerSummary.net_total
summary_net_total(s) == quantize(s.gross_total - s.discount_total)

\* AddToSummary counting a line's items once per line, not per unit
AddToSummary_CountsLines(s, ol) ==
    [s EXCEPT !.order_ids = @ \cup {ol.order_id},
              !.total_items = @ + 1,
              !.gross_total = quantize(@ + line_total(ol)),
              !.discount_total = quantize(@ + discount(ol))]

\* lines 173-177: one order line added to its customer's summary
AddToSummary(s, ol) ==
    [s EXCEPT !.order_ids = @ \cup {ol.order_id},
              !.total_items = @ + ol.quantity,
              !.gross_total = quantize(@ + line_total(ol)),
              !.discount_total = quantize(@ + discount(ol))]

\* the loop of summarize_by_customer from line i of the list on
RECURSIVE summarize_from(_, _, _)
summarize_from(order_lines, i, acc) ==
    IF i > Len(order_lines)
    THEN acc
    ELSE LET ol == order_lines[i]
             s == IF ol.customer \in DOMAIN acc
                  THEN acc[ol.customer]
                  ELSE NewCustomerSummary(ol.customer)
         IN summarize_from(order_lines, i + 1,
                [c \in DOMAIN acc \cup {ol.customer} |->
                    IF c = ol.customer THEN AddToSummary(s, ol)
                                       ELSE acc[c]])

summarize_by_customer(order_lines) ==
    summarize_from(order_lines, 1, EmptyMap)

InitOrders ==
    /\ books = EmptyMap
    /\ members = EmptyMap
    /\ last = Call("init", NoId, NoId, NoDate, "ok", 0)
    /\ inputs = [memberIds |-> {}, isbns |-> {}, dates |-> {}, returns |-> 0]
    /\ pending = EmptyMap
    /\ lines \in ListsUpTo(OrderLines, MaxLines)
    /\ summaries = EmptyMap
    /\ totals = NoTotals

\* summaries = summarize_by_customer(lines)
Summarize ==
    /\ summaries' = summarize_by_customer(lines)
    /\ last' = Call("summarize_by_customer", NoId, NoId, NoDate, "ok", 0)
    /\ UNCHANGED <<books, members, inputs, pending, lines, totals>>

\* the three properties of the i-th order line are read
ReadTotals(i) ==
    /\ totals' = [line |-> i,
                  line_total |-> line_total(lines[i]),
                  discount |-> discount(lines[i]),
                  net_total |-> net_total(lines[i])]
    /\ UNCHANGED <<books, members, last, inputs, pending, lines, summaries>>

NextOrders ==
    \/ Summarize
    \/ \E i \in DOMAIN lines : ReadTotals(i)

SpecOrders == InitOrders /\ [][NextOrders]_vars

(***************************************************************************)
(* Properties.  Every step of Next is one call, recorded in last', so a    *)
(* property of a call reads the call from last', the state it was made in  *)
(* from the unprimed variables and the state it left from the primed ones. *)
(***************************************************************************)
\* the isbns a registered member has on loan
ActiveLoans(memberId) == DOMAIN members[memberId].borrowedBooks

\* the members holding isbn
Holders(isbn) == {m \in DOMAIN members : isbn \in ActiveLoans(m)}

\* the step is a call of op whose member and book both resolve
ResolvedCall(op) ==
    /\ last'.op = op
    /\ last'.memberId \in DOMAIN members
    /\ last'.isbn \in DOMAIN books

\* no member has more than 3 active loans
AtMostThreeLoans ==
    \A m \in DOMAIN members : Cardinality(ActiveLoans(m)) <= 3

\* C1, as stated: at every step no member has more than 3 active loans, and
\* every checkoutBook by a member who has 3 active loans ends in the
\* borrow-limit error.
C1_AlwaysBorrowLimitError ==
    [][ /\ AtMostThreeLoans'
        /\ ( /\ last'.op = "checkoutBook"
             /\ last'.memberId \in DOMAIN members
             /\ Cardinality(ActiveLoans(last'.memberId)) = 3 )
               => last'.outcome = "BorrowLimit" ]_vars

\* C1, amended: at every step no member has more than 3 active loans, and
\* every checkoutBook by a member who has 3 active loans is rejected; the
\* error is the borrow-limit error when the book is in the catalog and
\* available and the member's live fine at the checkout date is at most
\* 10.00, that is when no earlier check rejects the call.
C1_BorrowLimit ==
    [][ /\ AtMostThreeLoans'
        /\ ( /\ last'.op = "checkoutBook"
             /\ last'.memberId \in DOMAIN members
             /\ Cardinality(ActiveLoans(last'.memberId)) = 3 )
               => /\ last'.outcome # "ok"
                  /\ ( /\ last'.isbn \in DOMAIN books
                       /\ books[last'.isbn].isAvailable
                       /\ calculateFine(members[last'.memberId], last'.date)
                              <= 10000 )
                         => last'.outcome = "BorrowLimit" ]_vars

\* a member with 3 active loans has just been refused a fourth, available
\* book with the borrow-limit error
C1_Witness ==
    /\ last.op = "checkoutBook"
    /\ last.outcome = "BorrowLimit"
    /\ Cardinality(ActiveLoans(last.memberId)) = 3
    /\ books[last.isbn].isAvailable

\* C2: for every book of the catalog, isAvailable is false iff exactly one
\* member has the isbn in their active loans and true iff no member has it;
\* so no book is in the active loans of two members.
C2_AvailabilityMatchesLoans ==
    \A isbn \in DOMAIN books :
        /\ (~books[isbn].isAvailable) <=> (Cardinality(Holders(isbn)) = 1)
        /\ books[isbn].isAvailable <=> (Holders(isbn) = {})

\* C3: for a known member and book, checkoutBook ends in the fine-block
\* error iff the total fine of the member's active loans as of the checkout
\* date is strictly over 10.00, whatever the stored fineBalance was; at
\* exactly 10.00 it is not blocked.
C3_FineGateIsLive ==
    [][ ResolvedCall("checkoutBook")
          => ( last'.outcome = "FineBlock"
                 <=> calculateFine(members[last'.memberId], last'.date)
                         > 10000 ) ]_vars

\* a checkout on day 34 has just succeeded for a member whose live fine at
\* that date was exactly 10.00 (the balance the checkout stores is that
\* fine: the new loan adds none)
C3_Witness ==
    /\ last.op = "checkoutBook"
    /\ last.outcome = "ok"
    /\ last.date = 34
    /\ members[last.memberId].fineBalance = 10000

\* the active loans and the history of every member
LoansAndHistory ==
    [m \in DOMAIN members |->
        <<members[m].borrowedBooks, members[m].borrowingHistory>>]

\* C4: a checkoutBook rejected by the fine-block, unavailable, borrow-limit
\* or duplicate-loan check leaves every member's active loans and history and
\* every book's isAvailable as they were.
C4_CheckoutAllOrNothing ==
    [][ ( /\ last'.op = "checkoutBook"
          /\ last'.outcome \in {"FineBlock", "Unavailable", "BorrowLimit",
                                "DuplicateLoan"} )
          => /\ books' = books
             /\ LoansAndHistory' = LoansAndHistory ]_vars

\* a member holding loans has just been refused an available book by the
\* fine-block check
C4_Witness ==
    /\ last.op = "checkoutBook"
    /\ last.outcome = "FineBlock"
    /\ books[last.isbn].isAvailable
    /\ ActiveLoans(last.memberId) # {}

\* C5: a call that ends in an error leaves the whole library state, the
\* stored fineBalance of the member it names included, as it was.
C5_ErrorsChangeNothing ==
    [][ last'.outcome # "ok" => (books' = books /\ members' = members) ]_vars

C8_ReturnFrame ==
    [][ ( /\ last'.op = "returnBook"
          /\ last'.outcome = "ok" )
          => LET m == last'.memberId
                 isbn == last'.isbn
             IN /\ DOMAIN books' = DOMAIN books
                /\ books'[isbn].isAvailable
                /\ \A other \in DOMAIN books \ {isbn} :
                       books'[other] = books[other]
                /\ DOMAIN members' = DOMAIN members
                /\ isbn \in ActiveLoans(m)
                /\ DOMAIN members'[m].borrowedBooks = ActiveLoans(m) \ {isbn}
                /\ \A other \in ActiveLoans(m) \ {isbn} :
                       members'[m].borrowedBooks[other] =
                           members[m].borrowedBooks[other]
                /\ \A other \in DOMAIN members \ {m} :
                       /\ members'[other].borrowedBooks =
                              members[other].borrowedBooks
                       /\ members'[other].borrowingHistory =
                              members[other].borrowingHistory ]_vars

\* a member has just returned a book while another member holds a loan
C8_Witness ==
    /\ last.op = "returnBook"
    /\ last.outcome = "ok"
    /\ books[last.isbn].isAvailable
    /\ \E other \in DOMAIN members \ {last.memberId} :
           ActiveLoans(other) # {}

\* C9: for a registered member and a book of the catalog, returnBook ends in
\* the not-borrowed error whenever the isbn is not among the member's active
\* loans (also when another member holds the book) and in the invalid-date
\* error whenever returnDate is before the loan's checkoutDate; in both
\* cases nothing changes.
C9_ReturnRejections ==
    [][ ResolvedCall("returnBook")
          => LET borrowedBooks == members[last'.memberId].borrowedBooks IN
             /\ last'.isbn \notin DOMAIN borrowedBooks
                    => last'.outcome = "NotBorrowed"
             /\ ( /\ last'.isbn \in DOMAIN borrowedBooks
                  /\ last'.date < borrowedBooks[last'.isbn] )
                    => last'.outcome = "InvalidDate"
             /\ last'.outcome \in {"NotBorrowed", "InvalidDate"}
                    => (books' = books /\ members' = members) ]_vars

\* a member has just been refused the return of a book another member holds
C9_Witness ==
    /\ last.op = "returnBook"
    /\ last.outcome = "NotBorrowed"
    /\ Holders(last.isbn) # {}
    /\ ~books[last.isbn].isAvailable

\* C10: calculateFine changes no state, and the value it returns is the
\* value the same call returns again in the state it leaves; that value
\* need not be the stored fineBalance.
C10_CalculateFineReadOnly ==
    [][ last'.op = "calculateFine"
          => /\ books' = books
             /\ members' = members
             /\ last'.outcome = "ok"
                    => last'.value =
                           calculateFine(members'[last'.memberId],
                                         last'.date) ]_vars

\* calculateFine has just returned a value that is not the stored
\* fineBalance
C10_Witness ==
    /\ last.op = "calculateFine"
    /\ last.outcome = "ok"
    /\ last.value # members[last.memberId].fineBalance

\* 0.50 (500 thousandths) per whole day past checkoutDate + 14 days, nothing
\* up to that day
ExpectedFine(checkoutDate, asOf) ==
    IF asOf <= checkoutDate + 14 THEN 0 ELSE (asOf - (checkoutDate + 14)) * 500

RECURSIVE ExpectedTotal(_, _, _)
ExpectedTotal(borrowedBooks, keys, asOf) ==
    IF keys = {}
    THEN 0
    ELSE LET isbn == CHOOSE k \in keys : TRUE IN
         ExpectedFine(borrowedBooks[isbn], asOf)
             + ExpectedTotal(borrowedBooks, keys \ {isbn}, asOf)

\* C11: for every checkoutDate and asOf, fine_for_loan is 0 when asOf is on
\* or before checkoutDate + 14 days and n * 0.50 when asOf is n days past
\* it; the fine a return charges is that amount for the returned loan, and
\* calculateFine returns the sum of these amounts over the member's active
\* loans.
C11_FineArithmetic ==
    [][ /\ \A checkoutDate \in inputs.dates, asOf \in inputs.dates :
               fine_for_loan(checkoutDate, asOf)
                   = ExpectedFine(checkoutDate, asOf)
        /\ ( /\ last'.op = "returnBook"
             /\ last'.outcome = "ok" )
               => last'.value =
                      ExpectedFine(members[last'.memberId]
                                       .borrowedBooks[last'.isbn],
                                   last'.date)
        /\ ( /\ last'.op = "calculateFine"
             /\ last'.outcome = "ok" )
               => LET borrowedBooks == members[last'.memberId].borrowedBooks
                  IN last'.value =
                         ExpectedTotal(borrowedBooks, DOMAIN borrowedBooks,
                                       last'.date) ]_vars

\* calculateFine has just returned 9.00 for three loans, each 6 days overdue
C11_Witness ==
    /\ last.op = "calculateFine"
    /\ last.outcome = "ok"
    /\ last.date = 20
    /\ last.value = 9000
    /\ Cardinality(ActiveLoans(last.memberId)) = 3
    /\ \A isbn \in ActiveLoans(last.memberId) :
           members[last.memberId].borrowedBooks[isbn] = 0

\* C12: every checkoutBook by a registered member for an isbn that is among
\* that member's active loans ends in the duplicate-loan error.
C12_DuplicateLoanError ==
    [][ ( /\ last'.op = "checkoutBook"
          /\ last'.memberId \in DOMAIN members
          /\ last'.isbn \in ActiveLoans(last'.memberId) )
          => last'.outcome = "DuplicateLoan" ]_vars

\* C13: checkoutBook and returnBook end in the member-not-found error when
\* the memberId is not registered and in the book-not-found error when the
\* member is registered and the isbn is not in the catalog, whatever the
\* rule checks would have said, and then leave books and members, the stored
\* fineBalance included, as they were.
C13_LookupFirst ==
    [][ last'.op \in {"checkoutBook", "returnBook"}
          => /\ last'.memberId \notin DOMAIN members
                    => /\ last'.outcome = "MemberNotFound"
                       /\ books' = books
                       /\ members' = members
             /\ ( /\ last'.memberId \in DOMAIN members
                  /\ last'.isbn \notin DOMAIN books )
                    => /\ last'.outcome = "BookNotFound"
                       /\ books' = books
                       /\ members' = members ]_vars

\* a checkoutBook has just ended in the book-not-found error for a member
\* whose stored fineBalance is not the live fine at the checkout date: line
\* 68 has not run
C13_Witness ==
    /\ last.op = "checkoutBook"
    /\ last.outcome = "BookNotFound"
    /\ last.memberId \in DOMAIN members
    /\ calculateFine(members[last.memberId], last.date)
           # members[last.memberId].fineBalance

\* C14: addBook with an isbn of the catalog and registerMember with a
\* registered memberId end in a duplicate error and leave every book and
\* member as they were; a book that addBook has just added is available.
C14_DuplicatesAndNewBooks ==
    [][ /\ ( /\ last'.op = "addBook"
             /\ last'.isbn \in DOMAIN books )
               => /\ last'.outcome = "DuplicateBook"
                  /\ books' = books
                  /\ members' = members
        /\ ( /\ last'.op = "registerMember"
             /\ last'.memberId \in DOMAIN members )
               => /\ last'.outcome = "DuplicateMember"
                  /\ books' = books
                  /\ members' = members
        /\ ( /\ last'.op = "addBook"
             /\ last'.outcome = "ok" )
               => books'[last'.isbn].isAvailable ]_vars

\* d is x rounded to a whole number of cents, a half going up
RoundsTo(x, d) == d % 10 = 0 /\ d - 5 <= x /\ x < d + 5

\* C15: for every order line, line_total is quantity * unit_price to the
\* cent; the discount is not 0 only when quantity * unit_price, and so the
\* line total, is strictly greater than 500.00, and is then 10% of the line
\* total to the cent; a line total of exactly 500.00 has discount 0; and
\* net_total is line_total minus discount.
C15_DiscountThreshold ==
    totals.line # 0 =>
        LET ol == lines[totals.line]
            product == ol.quantity * ol.unit_price
        IN /\ RoundsTo(product, totals.line_total)
           /\ totals.discount # 0
                  => (product > 500000 /\ totals.line_total > 500000)
           /\ totals.line_total > 500000
                  => RoundsTo(totals.line_total \div 10, totals.discount)
           /\ totals.line_total = 500000 => totals.discount = 0
           /\ totals.net_total = totals.line_total - totals.discount

\* the totals of a line of 2 x 250.00 have been read: exactly 500.00, no
\* discount
C15_Witness ==
    /\ totals.line # 0
    /\ lines[totals.line].quantity * lines[totals.line].unit_price = 500000
    /\ totals.line_total = 500000
    /\ totals.discount = 0
    /\ totals.net_total = 500000

\* the sum of f over the set S of its arguments
RECURSIVE SumOver(_, _)
SumOver(f, S) ==
    IF S = {}
    THEN 0
    ELSE LET x == CHOOSE y \in S : TRUE IN f[x] + SumOver(f, S \ {x})

\* the ways to reorder a list of n elements
Reorderings(n) ==
    {p \in [1..n -> 1..n] : \A i, j \in 1..n : p[i] = p[j] => i = j}

\* C16: summarize_by_customer yields one summary per distinct customer of
\* the lines; in it num_orders is the number of distinct order ids of the
\* customer's lines, total_items the sum of their quantities, gross_total
\* the sum of their line totals, discount_total the sum of their discounts
\* and net_total is gross_total minus discount_total; every reordering of
\* the lines yields the same summaries.
C16_SummaryTotals ==
    last.op = "summarize_by_customer" =>
        /\ DOMAIN summaries = {lines[i].customer : i \in DOMAIN lines}
        /\ \A c \in DOMAIN summaries :
               LET of_c == {i \in DOMAIN lines : lines[i].customer = c}
                   s == summaries[c]
               IN /\ s.customer = c
                  /\ num_orders(s)
                         = Cardinality({lines[i].order_id : i \in of_c})
                  /\ s.total_items
                         = SumOver([i \in of_c |-> lines[i].quantity], of_c)
                  /\ s.gross_total
                         = SumOver([i \in of_c |-> line_total(lines[i])],
                                   of_c)
                  /\ s.discount_total
                         = SumOver([i \in of_c |-> discount(lines[i])], of_c)
                  /\ summary_net_total(s)
                         = s.gross_total - s.discount_total
        /\ \A p \in Reorderings(Len(lines)) :
               summarize_by_customer([i \in DOMAIN lines |-> lines[p[i]]])
                   = summaries

\* three lines have been summarized: two of one order of Alice, one of them
\* discounted, and one of Bob
C16_Witness ==
    /\ last.op = "summarize_by_customer"
    /\ Len(lines) = 3
    /\ DOMAIN summaries = {"Alice", "Bob"}
    /\ num_orders(summaries["Alice"]) = 1
    /\ summaries["Alice"].total_items = 3
    /\ summaries["Alice"].discount_total = 50010
    /\ lines[2].customer = "Bob"

\* the history of a registered member
History(memberId) == members[memberId].borrowingHistory

\* the positions of the open records for isbn in a history
OpenRecords(borrowingHistory, isbn) ==
    {k \in 1..Len(borrowingHistory) :
        /\ borrowingHistory[k].isbn = isbn
        /\ borrowingHistory[k].returnDate = NoDate}

\* C17: a history only grows, by one open record (returnDate unset,
\* fineCharged 0, dueDate = checkoutDate + 14) appended by a successful
\* checkoutBook of its member; a record changes only once, when a successful
\* returnBook of its member for its isbn sets its returnDate and
\* fineCharged; a record that has a returnDate is never changed by any call;
\* and every closed record has returnDate >= checkoutDate and fineCharged =
\* fine_for_loan(checkoutDate, returnDate).
C17_RecordLifecycle ==
    [][ /\ DOMAIN members \subseteq DOMAIN members'
        /\ \A m \in DOMAIN members :
               LET old == History(m)
                   new == members'[m].borrowingHistory
               IN /\ Len(new) >= Len(old)
                  /\ Len(new) > Len(old)
                         => /\ last'.op = "checkoutBook"
                            /\ last'.outcome = "ok"
                            /\ last'.memberId = m
                            /\ new = Append(old,
                                   [isbn |-> last'.isbn,
                                    checkoutDate |-> last'.date,
                                    dueDate |-> last'.date + 14,
                                    returnDate |-> NoDate,
                                    fineCharged |-> 0])
                  /\ \A k \in 1..Len(old) :
                         /\ old[k].returnDate # NoDate => new[k] = old[k]
                         /\ new[k] # old[k]
                                => /\ last'.op = "returnBook"
                                   /\ last'.outcome = "ok"
                                   /\ last'.memberId = m
                                   /\ last'.isbn = old[k].isbn
                                   /\ new[k] =
                                          [old[k] EXCEPT
                                              !.returnDate = last'.date,
                                              !.fineCharged = last'.value]
        /\ \A m \in DOMAIN members' :
               \A k \in 1..Len(members'[m].borrowingHistory) :
                   LET r == members'[m].borrowingHistory[k] IN
                   /\ r.dueDate = r.checkoutDate + 14
                   /\ r.returnDate # NoDate
                          => /\ r.returnDate >= r.checkoutDate
                             /\ r.fineCharged =
                                    fine_for_loan(r.checkoutDate,
                                                  r.returnDate) ]_vars

\* a member who returned a book on day 0 has just returned it a second
\* time, on day 20 and with a fine, and the record of the first return is
\* still as it was closed
C17_Witness ==
    /\ last.op = "returnBook"
    /\ last.outcome = "ok"
    /\ last.date = 20
    /\ last.value > 0
    /\ \E k \in 1..Len(History(last.memberId)) :
           /\ History(last.memberId)[k].isbn = last.isbn
           /\ History(last.memberId)[k].returnDate = 0
           /\ History(last.memberId)[k].fineCharged = 0

\* C19: a successful checkoutBook appends one open record for the isbn to
\* the member's history, also when the history already holds closed records
\* for that isbn (a book that was returned can be taken again: the call
\* succeeds whenever the book is available, the member has fewer than 3
\* loans and no live fine over 10.00); a successful returnBook closes
\* exactly one record, the last open record for the isbn in the member's
\* history, and leaves every other record, the earlier closed records for
\* the same isbn included, as it was.
C19_BorrowCycle ==
    [][ /\ ( /\ ResolvedCall("checkoutBook")
             /\ books[last'.isbn].isAvailable
             /\ Cardinality(ActiveLoans(last'.memberId)) < 3
             /\ calculateFine(members[last'.memberId], last'.date)
                    <= 10000 )
               => /\ last'.outcome = "ok"
                  /\ last'.isbn \in DOMAIN members'[last'.memberId]
                                            .borrowedBooks
                  /\ ~books'[last'.isbn].isAvailable
                  /\ Len(members'[last'.memberId].borrowingHistory)
                         = Len(History(last'.memberId)) + 1
                  /\ LET new == members'[last'.memberId].borrowingHistory
                     IN /\ new[Len(new)].isbn = last'.isbn
                        /\ new[Len(new)].returnDate = NoDate
                        /\ \A k \in 1..Len(new) - 1 :
                               new[k] = History(last'.memberId)[k]
        /\ ( /\ last'.op = "returnBook"
             /\ last'.outcome = "ok" )
               => LET old == History(last'.memberId)
                      new == members'[last'.memberId].borrowingHistory
                      open == OpenRecords(old, last'.isbn)
                  IN /\ open # {}
                     /\ Len(new) = Len(old)
                     /\ \E k \in open :
                            /\ \A j \in open : j <= k
                            /\ new[k].returnDate = last'.date
                            /\ new[k].isbn = last'.isbn
                            /\ \A j \in 1..Len(old) \ {k} :
                                   new[j] = old[j]
                     /\ last'.isbn \notin
                            DOMAIN members'[last'.memberId].borrowedBooks
                     /\ books'[last'.isbn].isAvailable ]_vars

\* a member has just taken the same book for the third time: the history
\* holds two closed records for it and, last, the open one
C19_Witness ==
    /\ last.op = "checkoutBook"
    /\ last.outcome = "ok"
    /\ LET h == History(last.memberId) IN
       /\ Len(h) = 3
       /\ \A k \in 1..3 : h[k].isbn = last.isbn
       /\ h[1].returnDate # NoDate
       /\ h[2].returnDate # NoDate
       /\ h[3].returnDate = NoDate

\* C18: checkoutBook reports the first failure in the order member not
\* found, book not found, fine block (live fine at the checkout date over
\* 10.00), book unavailable, borrow limit (3 active loans), duplicate loan,
\* and succeeds when there is none; so a member with a live fine over 10.00
\* asking for an unavailable book gets the fine-block error and a member
\* with 3 active loans asking for an unavailable book the unavailable error.
C18_FirstFailureWins ==
    [][ last'.op = "checkoutBook"
          => LET m == last'.memberId
                 isbn == last'.isbn
             IN last'.outcome =
                    IF m \notin DOMAIN members THEN "MemberNotFound"
                    ELSE IF isbn \notin DOMAIN books THEN "BookNotFound"
                    ELSE IF calculateFine(members[m], last'.date) > 10000
                         THEN "FineBlock"
                    ELSE IF ~books[isbn].isAvailable THEN "Unavailable"
                    ELSE IF Cardinality(ActiveLoans(m)) >= 3
                         THEN "BorrowLimit"
                    ELSE IF isbn \in ActiveLoans(m) THEN "DuplicateLoan"
                    ELSE "ok" ]_vars

\* a member with 3 active loans has just asked for a book that is out and
\* got the unavailable error
C18_Witness ==
    /\ last.op = "checkoutBook"
    /\ last.outcome = "Unavailable"
    /\ Cardinality(ActiveLoans(last.memberId)) = 3
    /\ ~books[last.isbn].isAvailable

\* a member with a live fine over 10.00 has just asked for a book that is
\* out and got the fine-block error
C18_FineBlockFirst ==
    /\ last.op = "checkoutBook"
    /\ last.outcome = "FineBlock"
    /\ ~books[last.isbn].isAvailable

\* C20: with each call run in two steps and the calls of each member
\* serialized, whatever the calls of other members do in between, no member
\* ever has more than 3 active loans, and whenever a checkoutBook commits
\* the member has fewer than 3 active loans and a live fine at the checkout
\* date of at most 10.00.
C20_SerializedPerMember ==
    [][ /\ AtMostThreeLoans'
        /\ \A m \in DOMAIN pending :
               ( /\ pending[m].op = "checkoutBook"
                 /\ m \notin DOMAIN pending' )
                 => /\ pending[m].isbn \in DOMAIN members'[m].borrowedBooks
                    /\ Cardinality(ActiveLoans(m)) < 3
                    /\ calculateFine(members[m], pending[m].date)
                           <= 10000 ]_vars

\* a member with 3 active loans, one of them a book the other member took
\* at the same time, has just been refused a fourth while the other member
\* has a call in flight
C20_Witness ==
    /\ last.op = "checkoutBook"
    /\ last.outcome = "BorrowLimit"
    /\ Cardinality(ActiveLoans(last.memberId)) = 3
    /\ \E other \in DOMAIN members \ {last.memberId} :
           /\ ActiveLoans(other) \cap ActiveLoans(last.memberId) # {}
           /\ other \in DOMAIN pending

\* a checkout has just committed for a member whose live fine at the
\* checkout date was exactly 10.00, while the other member has a call in
\* flight
C20_CommitAtTheGate ==
    /\ last.op = "checkoutBook"
    /\ last.outcome = "ok"
    /\ last.date = 34
    /\ members[last.memberId].fineBalance = 10000
    /\ DOMAIN pending # {}

\* the sum of fineCharged over the closed records of a history
RECURSIVE SumCharged(_)
SumCharged(borrowingHistory) ==
    IF borrowingHistory = <<>>
    THEN 0
    ELSE LET rec == Head(borrowingHistory) IN
         (IF rec.returnDate # NoDate THEN rec.fineCharged ELSE 0)
             + SumCharged(Tail(borrowingHistory))

OpenRecordsMatchLoans(member) ==
    /\ \A isbn \in DOMAIN member.borrowedBooks :
           /\ Cardinality(OpenRecords(member.borrowingHistory, isbn)) = 1
           /\ \A k \in OpenRecords(member.borrowingHistory, isbn) :
                  member.borrowingHistory[k].checkoutDate =
                      member.borrowedBooks[isbn]
    /\ \A k \in 1..Len(member.borrowingHistory) :
           member.borrowingHistory[k].returnDate = NoDate
               => member.borrowingHistory[k].isbn
                      \in DOMAIN member.borrowedBooks

\* C22: in every reachable state and for every member the open records of
\* the history correspond one-to-one with the active loans (one open record
\* per active isbn, with the same checkoutDate, none for an isbn that is not
\* active), and every successful returnBook finds an open record of its
\* isbn and closes it.
C22_OpenRecordsAreLoans ==
    [][ /\ \A m \in DOMAIN members' : OpenRecordsMatchLoans(members'[m])
        /\ ( /\ last'.op = "returnBook"
             /\ last'.outcome = "ok" )
               => LET old == History(last'.memberId)
                      new == members'[last'.memberId].borrowingHistory
                  IN /\ OpenRecords(old, last'.isbn) # {}
                     /\ OpenRecords(new, last'.isbn) = {}
                     /\ Cardinality(ClosedRecords(new)) =
                            Cardinality(ClosedRecords(old)) + 1 ]_vars

\* a member who returned 111 and took it again also holds 222: the history
\* has a closed record and two open ones, one per active loan
C22_Witness ==
    \E m \in DOMAIN members :
        /\ ActiveLoans(m) = {"111", "222"}
        /\ Len(History(m)) = 3
        /\ History(m)[1].isbn = "111"
        /\ History(m)[1].returnDate # NoDate
        /\ Cardinality(OpenRecords(History(m), "111")) = 1
        /\ Cardinality(OpenRecords(History(m), "222")) = 1

C24_LoansExclusive ==
    \A isbn \in DOMAIN books : Cardinality(Holders(isbn)) <= 1

\* every book has at most one holder and is unavailable while it has one
HeldBooksAreOut ==
    \A m \in DOMAIN members :
        \A isbn \in DOMAIN members[m].borrowedBooks :
            /\ ~books[isbn].isAvailable
            /\ \A other \in DOMAIN members \ {m} :
                   isbn \notin DOMAIN members[other].borrowedBooks

\* the step commits a checkoutBook whose book has been lent to another
\* member since the call checked its availability
StaleCommit ==
    \E m \in DOMAIN pending :
        /\ pending[m].op = "checkoutBook"
        /\ m \notin DOMAIN pending'
        /\ ~books[pending[m].isbn].isAvailable
        /\ Holders(pending[m].isbn) # {}
        /\ pending[m].isbn \in DOMAIN members'[m].borrowedBooks

\* C24: with the calls of each member serialized and the checks and commits
\* of different members interleaving, books have at most one holder, and
\* are unavailable while held, only until a checkoutBook commits for a book
\* that another member's checkoutBook took after its availability check: no
\* other step gives a book a second holder, and that step does.
C24_ExclusiveUntilStaleCommit ==
    [][ /\ HeldBooksAreOut' \/ ~HeldBooksAreOut \/ StaleCommit
        /\ (StaleCommit /\ HeldBooksAreOut) => ~C24_LoansExclusive' ]_vars

\* a checkoutBook has just committed for a book the other member holds:
\* both passed the availability check before either commit
C24_Witness ==
    /\ last.op = "checkoutBook"
    /\ last.outcome = "ok"
    /\ Cardinality(Holders(last.isbn)) = 2
    /\ ~books[last.isbn].isAvailable
    /\ \A m \in Holders(last.isbn) :
           members[m].borrowedBooks[last.isbn] = last.date

====
